---- MODULE Spec2Model ----
(***************************************************************************)
(* flowPy: serial flow-network pressure drop.                              *)
(*                                                                         *)
(* The model covers the element data model (Inlet, Pipe, Junction,         *)
(* Outlet), the two compute() methods, resolve_refs and build_network,     *)
(* with the registry functions the modelled inputs call.                   *)
(*                                                                         *)
(* Numbers.  Python floats are modelled as a binary floating-point format  *)
(* scaled down: a value is an integer count of quanta of 2^-FracBits, and  *)
(* every arithmetic result is rounded (to nearest, ties to even) to        *)
(* MantBits significant bits.  Division by zero raises, as in Python.      *)
(*                                                                         *)
(* Strings.  A string is a sequence of chunks.  flow_direction strings are *)
(* given character by character, so strip() and lower() act as in Python;  *)
(* a reference token "${geom.K}" is the chunks <<"${geom.", K, "}">>.      *)
(***************************************************************************)
EXTENDS Integers, Sequences, FiniteSets, TLC

\* ------------------------------------------------------------------ bounds
\* Fraction bits of the number format (the quantum is 2^-FracBits).
FracBits == 2
\* Significant bits kept by every arithmetic result.
MantBits == 8
\* Longest inputs["network"] list given to build_network.
MaxDesc == 3
\* Most pipes/junctions between the inlet and the outlet of a chain document.
MaxChain == 2

\* ------------------------------------------------------------- arithmetic
RECURSIVE BitLen(_)
BitLen(q) == IF q = 0 THEN 0 ELSE 1 + BitLen(q \div 2)

Quantum == 2 ^ FracBits

Abs(x) == IF x < 0 THEN 0 - x ELSE x

\* a / d rounded to the nearest integer, ties to even (a >= 0, d > 0).
RoundHalfEven(a, d) ==
    LET q == a \div d
        r == a % d
    IN  IF 2 * r < d THEN q
        ELSE IF 2 * r > d THEN q + 1
        ELSE IF q % 2 = 0 THEN q ELSE q + 1

\* The representable number nearest to the rational n / d quanta (d # 0).
FlRat(n, d) ==
    LET neg  == (n < 0) # (d < 0)
        a    == Abs(n)
        b    == Abs(d)
        e    == BitLen(a \div b)
        step == IF e > MantBits THEN 2 ^ (e - MantBits) ELSE 1
        m    == RoundHalfEven(a, b * step) * step
    IN  IF neg THEN 0 - m ELSE m

\* The number n / d of the source text, in quanta.
Num(n, d) == FlRat(n * Quantum, d)

FAdd(x, y) == FlRat(x + y, 1)
FSub(x, y) == FlRat(x - y, 1)
FMul(x, y) == FlRat(x * y, Quantum)
\* y # 0: the caller raises ZeroDivisionError first.
FDiv(x, y) == FlRat(x * Quantum, y)
FSquare(x) == FMul(x, x)

Half == Num(1, 2)
One == Num(1, 1)
PI == Num(314159, 100000)

\* ----------------------------------------------------------------- values
\* A Python value as the YAML loader or a computation yields it: a number,
\* a string, None, a list, or a map (dict) with some of the keys func/params.
NumV(x) == [t |-> "num", n |-> x, s |-> <<>>, keys |-> {}, fn |-> "", params |-> <<>>]
StrV(chunks) == [t |-> "str", n |-> 0, s |-> chunks, keys |-> {}, fn |-> "", params |-> <<>>]
NoneV == [t |-> "none", n |-> 0, s |-> <<>>, keys |-> {}, fn |-> "", params |-> <<>>]
ListV == [t |-> "list", n |-> 0, s |-> <<>>, keys |-> {}, fn |-> "", params |-> <<>>]
MapV(ks, f, ps) == [t |-> "map", n |-> 0, s |-> <<>>, keys |-> ks, fn |-> f, params |-> ps]
\* {func: f, params: {...}}; params is the ordered list of <<name, value>>.
CallV(f, ps) == MapV({"func", "params"}, f, ps)

IsNum(v) == v.t = "num"

\* An exception: its class and the parts of its message.
Err(cls, msg) == [cls |-> cls, msg |-> msg]
NoErr == Err("", <<>>)

Last(s) == s[Len(s)]

\* ---------------------------------------------------------------- strings
Whitespace == {" ", "\t", "\n"}
UpperChars == <<"U", "P", "D", "O", "W", "N", "S", "I", "E">>
LowerChars == <<"u", "p", "d", "o", "w", "n", "s", "i", "e">>

LowerChar(c) ==
    IF \E i \in DOMAIN UpperChars : UpperChars[i] = c
    THEN LowerChars[CHOOSE i \in DOMAIN UpperChars : UpperChars[i] = c]
    ELSE c

\* str.lower()
Lower(s) == [i \in DOMAIN s |-> LowerChar(s[i])]

RECURSIVE LStrip(_)
LStrip(s) == IF s # <<>> /\ Head(s) \in Whitespace THEN LStrip(Tail(s)) ELSE s

RECURSIVE RStrip(_)
RStrip(s) ==
    IF s # <<>> /\ Last(s) \in Whitespace THEN RStrip(SubSeq(s, 1, Len(s) - 1)) ELSE s

\* str.strip()
Strip(s) == RStrip(LStrip(s))

\* --------------------------------------------------------------- elements
\* An object of the data model: its class, the attributes set on it so far
\* (name -> value), and the object it references (Pipe/Junction.upstream,
\* Outlet.last_node) as a sequence of length at most one.
Elem(kind, attrs, link) == [kind |-> kind, attrs |-> attrs, link |-> link]

NewInlet(name, pressure, mass_flow_rate, density, temperature) ==
    Elem("Inlet",
         [name |-> name, outlet_pressure |-> pressure,
          mass_flow_rate |-> mass_flow_rate, density |-> density,
          temperature |-> temperature],
         <<>>)

NewOutlet(name, last_node) == Elem("Outlet", [name |-> name], <<last_node>>)

\* getattr(obj, attr, None)
GetAttr(obj, attr) == IF attr \in DOMAIN obj.attrs THEN obj.attrs[attr] ELSE NoneV

\* ------------------------------------------------------- element compute
GRAVITY == Num(980665, 100000)

\* A slip of UpstreamUnset: hasattr() instead of the None test.
UpstreamUnset_OnlyAbsent(up) == "outlet_pressure" \notin DOMAIN up.attrs

\* getattr(self.upstream, "outlet_pressure", None) is None
UpstreamUnset(up) == GetAttr(up, "outlet_pressure").t = "none"

\* float(x) of a number: the nearest representable number.
ToFloat(x) == FlRat(x, 1)

\* A slip of InletFromUpstream: the upstream's inlet pressure is read.
InletFromUpstream_ReadsInlet(up) == NumV(ToFloat(GetAttr(up, "inlet_pressure").n))

\* self.inlet_pressure = float(self.upstream.outlet_pressure)
InletFromUpstream(up) == NumV(ToFloat(up.attrs.outlet_pressure.n))

\* A slip of EndpointOutlet: the drop is added to the inlet pressure.
EndpointOutlet_DropAdded(inlet_pressure, pressure_drop) ==
    NumV(FAdd(inlet_pressure.n, pressure_drop.n))

\* self.outlet_pressure = self.inlet_pressure - self.pressure_drop
EndpointOutlet(inlet_pressure, pressure_drop) == NumV(FSub(inlet_pressure.n, pressure_drop.n))

\* mass_flow_rate / (density * area)
Velocity(mass_flow_rate, density, area) == FDiv(mass_flow_rate, FMul(density, area))

\* A slip of FormLoss: the factor 0.5 is left out.
FormLoss_NoHalf(form_loss, density, ref_velocity) ==
    FMul(FMul(form_loss, density), FSquare(ref_velocity))

\* form_loss * 0.5 * density * ref_velocity**2
FormLoss(form_loss, density, ref_velocity) ==
    FMul(FMul(FMul(form_loss, Half), density), FSquare(ref_velocity))

\* friction_factor * (length / hydraulic_diameter) * q_ref,
\* q_ref = 0.5 * density * (ref_velocity**2)
FrictionLoss(friction_factor, length, hydraulic_diameter, density, ref_velocity) ==
    LET q_ref == FMul(FMul(Half, density), FSquare(ref_velocity))
    IN  FMul(FMul(friction_factor, FDiv(length, hydraulic_diameter)), q_ref)

\* The sign of the hydrostatic term for a normalised direction key.
DirKey(flow_direction) == Lower(Strip(flow_direction))

ValidDirKeys == {<<"u", "p">>, <<"d", "o", "w", "n">>, <<"s", "i", "d", "e">>}

DirSign(dir_key) ==
    CASE dir_key = <<"u", "p">> -> One
      [] dir_key = <<"d", "o", "w", "n">> -> 0 - One
      [] dir_key = <<"s", "i", "d", "e">> -> 0

\* density * Pipe.GRAVITY * length * sign
GravityTerm(density, length, sign) == FMul(FMul(FMul(density, GRAVITY), length), sign)

\* 0.5 * density * (alpha2 * outlet_velocity**2 - alpha1 * inlet_velocity**2)
AccelTerm(density, alpha1, alpha2, inlet_velocity, outlet_velocity) ==
    FMul(FMul(Half, density),
         FSub(FMul(alpha2, FSquare(outlet_velocity)), FMul(alpha1, FSquare(inlet_velocity))))

\* A slip of PipePressureDrop: the acceleration term is left out.
PipePressureDrop_NoAccel(dp_loss, dp_gravity, dp_accel) == FAdd(dp_loss, dp_gravity)

\* self.pressure_drop = self.dp_loss + self.dp_gravity + self.dp_accel
PipePressureDrop(dp_loss, dp_gravity, dp_accel) == FAdd(FAdd(dp_loss, dp_gravity), dp_accel)

\* Junction.compute on the constructor arguments a (a record of values) and
\* the upstream object: the exception raised, if any, and the attributes
\* set when it returns or raises.  (float() of the upstream pressure is
\* modelled for numbers and for values float() rejects, not for strings.)
JunctionInit(a) ==
    [name |-> a.name, ref_area |-> a.ref_area, form_loss |-> a.form_loss,
     mass_flow_rate |-> a.mass_flow_rate, density |-> a.density]

\* Endpoint pressures
JunctionEndpoints(a, up, s) ==
    IF ~IsNum(up.attrs.outlet_pressure)
    THEN [err |-> Err("TypeError", <<"inlet_pressure">>), attrs |-> s]
    ELSE [err |-> NoErr,
          attrs |-> [inlet_pressure |-> InletFromUpstream(up),
                     outlet_pressure |->
                         EndpointOutlet(InletFromUpstream(up), s.pressure_drop)] @@ s]

JunctionLoss(a, up, s) ==
    IF ~IsNum(a.form_loss)
    THEN [err |-> Err("TypeError", <<"dp_loss">>), attrs |-> s]
    ELSE JunctionEndpoints(a, up,
            [dp_loss |-> NumV(FormLoss(a.form_loss.n, a.density.n, s.ref_velocity.n)),
             pressure_drop |->
                 NumV(FormLoss(a.form_loss.n, a.density.n, s.ref_velocity.n))] @@ s)

JunctionCompute(a, up) ==
    IF UpstreamUnset(up)
    THEN [err |-> Err("ValueError", <<"upstream.outlet_pressure must be set">>),
          attrs |-> JunctionInit(a)]
    \* Reference velocity and loss
    ELSE IF ~(IsNum(a.mass_flow_rate) /\ IsNum(a.density) /\ IsNum(a.ref_area))
    THEN [err |-> Err("TypeError", <<"ref_velocity">>), attrs |-> JunctionInit(a)]
    ELSE IF FMul(a.density.n, a.ref_area.n) = 0
    THEN [err |-> Err("ZeroDivisionError", <<"ref_velocity">>), attrs |-> JunctionInit(a)]
    ELSE JunctionLoss(a, up,
            [ref_velocity |->
                 NumV(Velocity(a.mass_flow_rate.n, a.density.n, a.ref_area.n))]
            @@ JunctionInit(a))

\* Pipe.compute, statement by statement; each step takes the attributes set
\* so far and hands them on.  Failed(cls, what, s) is a raise at that point.
Failed(cls, what, s) == [err |-> Err(cls, <<what>>), attrs |-> s]

\* Totals and endpoints
PipeEndpoints(a, up, s) ==
    IF ~IsNum(up.attrs.outlet_pressure) THEN Failed("TypeError", "inlet_pressure", s)
    ELSE [err |-> NoErr,
          attrs |-> [inlet_pressure |-> InletFromUpstream(up),
                     outlet_pressure |->
                         EndpointOutlet(InletFromUpstream(up), s.pressure_drop)] @@ s]

\* Acceleration term, then the total
PipeAccel(a, up, s) ==
    IF ~(IsNum(a.alpha1) /\ IsNum(a.alpha2)) THEN Failed("TypeError", "dp_accel", s)
    ELSE PipeEndpoints(a, up,
            [dp_accel |-> NumV(AccelTerm(a.density.n, a.alpha1.n, a.alpha2.n,
                                         s.inlet_velocity.n, s.outlet_velocity.n)),
             pressure_drop |->
                 NumV(PipePressureDrop(
                        s.dp_loss.n, s.dp_gravity.n,
                        AccelTerm(a.density.n, a.alpha1.n, a.alpha2.n,
                                  s.inlet_velocity.n, s.outlet_velocity.n)))] @@ s)

\* Hydrostatic term: sign from flow_direction
PipeGravity(a, up, s) ==
    IF a.flow_direction.t # "str" THEN Failed("AttributeError", "strip", s)
    ELSE IF DirKey(a.flow_direction.s) \notin ValidDirKeys
    THEN Failed("ValueError", "flow_direction must be 'up', 'down', or 'side'", s)
    ELSE PipeAccel(a, up,
            [dp_gravity |-> NumV(GravityTerm(a.density.n, a.length.n,
                                             DirSign(DirKey(a.flow_direction.s))))] @@ s)

\* Friction using the chosen reference velocity
PipeFriction(a, up, s) ==
    IF ~(IsNum(a.friction_factor) /\ IsNum(a.length) /\ IsNum(a.hydraulic_diameter))
    THEN Failed("TypeError", "dp_loss", s)
    ELSE IF a.hydraulic_diameter.n = 0 THEN Failed("ZeroDivisionError", "dp_loss", s)
    ELSE PipeGravity(a, up,
            [dp_loss |-> NumV(FrictionLoss(a.friction_factor.n, a.length.n,
                                           a.hydraulic_diameter.n, a.density.n,
                                           s.ref_velocity.n))] @@ s)

PipeRefVelocity(a, up, s) ==
    IF ~IsNum(a.ref_area) THEN Failed("TypeError", "ref_velocity", s)
    ELSE IF FMul(a.density.n, a.ref_area.n) = 0
    THEN Failed("ZeroDivisionError", "ref_velocity", s)
    ELSE PipeFriction(a, up,
            [ref_velocity |->
                 NumV(Velocity(a.mass_flow_rate.n, a.density.n, a.ref_area.n))] @@ s)

PipeOutletVelocity(a, up, s) ==
    IF ~IsNum(a.outlet_area) THEN Failed("TypeError", "outlet_velocity", s)
    ELSE IF FMul(a.density.n, a.outlet_area.n) = 0
    THEN Failed("ZeroDivisionError", "outlet_velocity", s)
    ELSE PipeRefVelocity(a, up,
            [outlet_velocity |->
                 NumV(Velocity(a.mass_flow_rate.n, a.density.n, a.outlet_area.n))] @@ s)

\* Section velocities
PipeInletVelocity(a, up, s) ==
    IF ~(IsNum(a.mass_flow_rate) /\ IsNum(a.density) /\ IsNum(a.inlet_area))
    THEN Failed("TypeError", "inlet_velocity", s)
    ELSE IF FMul(a.density.n, a.inlet_area.n) = 0
    THEN Failed("ZeroDivisionError", "inlet_velocity", s)
    ELSE PipeOutletVelocity(a, up,
            [inlet_velocity |->
                 NumV(Velocity(a.mass_flow_rate.n, a.density.n, a.inlet_area.n))] @@ s)

\* The attributes the dataclass __init__ sets before __post_init__ runs.
PipeInit(a) ==
    [name |-> a.name, length |-> a.length, hydraulic_diameter |-> a.hydraulic_diameter,
     friction_factor |-> a.friction_factor, mass_flow_rate |-> a.mass_flow_rate,
     density |-> a.density, inlet_area |-> a.inlet_area, outlet_area |-> a.outlet_area,
     ref_area |-> a.ref_area, flow_direction |-> a.flow_direction,
     alpha1 |-> a.alpha1, alpha2 |-> a.alpha2]

\* Pipe.compute on the constructor arguments a and the upstream object.
PipeCompute(a, up) ==
    IF UpstreamUnset(up) THEN Failed("ValueError", "outlet_pressure must be set", PipeInit(a))
    ELSE PipeInletVelocity(a, up, PipeInit(a))

\* ---------------------------------------------------- registry functions
\* Keyword arguments are the ordered list of <<name, value>> of a params map.
KwNames(kw) == {kw[i][1] : i \in DOMAIN kw}
KwArg(kw, name) == kw[CHOOSE i \in DOMAIN kw : kw[i][1] = name][2]

Returned(v) == [err |-> NoErr, val |-> v]
Raised(cls, msg) == [err |-> Err(cls, msg), val |-> NoneV]

\* math.pi * (D**2) / 4.0
area_circle(kw) ==
    IF KwNames(kw) # {"D"} THEN Raised("TypeError", <<"area_circle">>)
    ELSE LET D == KwArg(kw, "D")
         IN  IF ~IsNum(D) THEN Raised("TypeError", <<"area_circle">>)
             ELSE IF D.n < 0 THEN Raised("ValueError", <<"D must be non-negative.">>)
             ELSE Returned(NumV(FDiv(FMul(PI, FSquare(D.n)), Num(4, 1))))

\* return D
hydraulic_diameter_circle(kw) ==
    IF KwNames(kw) # {"D"} THEN Raised("TypeError", <<"hydraulic_diameter_circle">>)
    ELSE Returned(KwArg(kw, "D"))

\* Two numeric keyword arguments a and b, or the TypeError of the call.
TwoNumbers(kw, a, b, fn) ==
    IF KwNames(kw) # {a, b} THEN Raised("TypeError", <<fn>>)
    ELSE IF ~(IsNum(KwArg(kw, a)) /\ IsNum(KwArg(kw, b))) THEN Raised("TypeError", <<fn>>)
    ELSE Returned(NoneV)

\* L * w
area_rectangle(kw) ==
    IF TwoNumbers(kw, "L", "w", "area_rectangle").err # NoErr
    THEN TwoNumbers(kw, "L", "w", "area_rectangle")
    ELSE IF KwArg(kw, "L").n < 0 \/ KwArg(kw, "w").n < 0
    THEN Raised("ValueError", <<"L and w must be non-negative.">>)
    ELSE Returned(NumV(FMul(KwArg(kw, "L").n, KwArg(kw, "w").n)))

\* area_rectangle(L, b) + area_circle(b)
area_capsule_slot(kw) ==
    IF TwoNumbers(kw, "b", "L", "area_capsule_slot").err # NoErr
    THEN TwoNumbers(kw, "b", "L", "area_capsule_slot")
    ELSE IF KwArg(kw, "b").n < 0 \/ KwArg(kw, "L").n < 0
    THEN Raised("ValueError", <<"b and L must be non-negative.">>)
    ELSE Returned(NumV(FAdd(
            area_rectangle(<< <<"L", KwArg(kw, "L")>>, <<"w", KwArg(kw, "b")>> >>).val.n,
            area_circle(<< <<"D", KwArg(kw, "b")>> >>).val.n)))

\* math.pi * (D_outer**2 - D_inner**2) / 4.0
area_annulus(kw) ==
    IF TwoNumbers(kw, "D_outer", "D_inner", "area_annulus").err # NoErr
    THEN TwoNumbers(kw, "D_outer", "D_inner", "area_annulus")
    ELSE Returned(NumV(FDiv(FMul(PI, FSub(FSquare(KwArg(kw, "D_outer").n),
                                          FSquare(KwArg(kw, "D_inner").n))),
                            Num(4, 1))))

\* math.pi * D
wetted_perimeter_circle(kw) ==
    IF KwNames(kw) # {"D"} \/ ~IsNum(KwArg(kw, "D"))
    THEN Raised("TypeError", <<"wetted_perimeter_circle">>)
    ELSE Returned(NumV(FMul(PI, KwArg(kw, "D").n)))

\* math.pi * (D_outer + D_inner)
hydraulic_diameter_annulus(kw) ==
    IF TwoNumbers(kw, "D_outer", "D_inner", "hydraulic_diameter_annulus").err # NoErr
    THEN TwoNumbers(kw, "D_outer", "D_inner", "hydraulic_diameter_annulus")
    ELSE Returned(NumV(FMul(PI, FAdd(KwArg(kw, "D_outer").n, KwArg(kw, "D_inner").n))))

\* 4.0 * A / P_w
hydraulic_diameter_generic(kw) ==
    IF TwoNumbers(kw, "A", "P_w", "hydraulic_diameter_generic").err # NoErr
    THEN TwoNumbers(kw, "A", "P_w", "hydraulic_diameter_generic")
    ELSE IF KwArg(kw, "P_w").n = 0
    THEN Raised("ZeroDivisionError", <<"hydraulic_diameter_generic">>)
    ELSE Returned(NumV(FDiv(FMul(Num(4, 1), KwArg(kw, "A").n), KwArg(kw, "P_w").n)))

\* D_outer - D_inner
hydraulic_diameter_annulus_concentric(kw) ==
    IF TwoNumbers(kw, "D_outer", "D_inner", "hydraulic_diameter_annulus_concentric").err # NoErr
    THEN TwoNumbers(kw, "D_outer", "D_inner", "hydraulic_diameter_annulus_concentric")
    ELSE Returned(NumV(FSub(KwArg(kw, "D_outer").n, KwArg(kw, "D_inner").n)))

\* (2.0 * a * b) / (a + b)
hydraulic_diameter_rect_slot(kw) ==
    IF TwoNumbers(kw, "a", "b", "hydraulic_diameter_rect_slot").err # NoErr
    THEN TwoNumbers(kw, "a", "b", "hydraulic_diameter_rect_slot")
    ELSE IF FAdd(KwArg(kw, "a").n, KwArg(kw, "b").n) = 0
    THEN Raised("ZeroDivisionError", <<"hydraulic_diameter_rect_slot">>)
    ELSE Returned(NumV(FDiv(FMul(FMul(Num(2, 1), KwArg(kw, "a").n), KwArg(kw, "b").n),
                            FAdd(KwArg(kw, "a").n, KwArg(kw, "b").n))))

\* A = b * L + math.pi * (b**2) / 4.0; Pw = 2.0 * L + math.pi * b; 4.0 * A / Pw
hydraulic_diameter_capsule_slot(kw) ==
    IF TwoNumbers(kw, "b", "L", "hydraulic_diameter_capsule_slot").err # NoErr
    THEN TwoNumbers(kw, "b", "L", "hydraulic_diameter_capsule_slot")
    ELSE LET b == KwArg(kw, "b").n
             L == KwArg(kw, "L").n
             A == FAdd(FMul(b, L), FDiv(FMul(PI, FSquare(b)), Num(4, 1)))
             Pw == FAdd(FMul(Num(2, 1), L), FMul(PI, b))
         IN  IF Pw = 0 THEN Raised("ZeroDivisionError", <<"hydraulic_diameter_capsule_slot">>)
             ELSE Returned(NumV(FDiv(FMul(Num(4, 1), A), Pw)))

\* return 1.0
free_discharge(kw) ==
    IF KwNames(kw) # {} THEN Raised("TypeError", <<"free_discharge">>)
    ELSE Returned(NumV(One))

\* (1 - inlet_area / outlet_area) ** 2
sudden_expansion(kw) ==
    IF KwNames(kw) # {"inlet_area", "outlet_area"}
    THEN Raised("TypeError", <<"sudden_expansion">>)
    ELSE LET inlet_area == KwArg(kw, "inlet_area")
             outlet_area == KwArg(kw, "outlet_area")
         IN  IF ~(IsNum(inlet_area) /\ IsNum(outlet_area))
             THEN Raised("TypeError", <<"sudden_expansion">>)
             ELSE IF outlet_area.n = 0
             THEN Raised("ZeroDivisionError", <<"sudden_expansion">>)
             ELSE Returned(NumV(FSquare(FSub(One, FDiv(inlet_area.n, outlet_area.n)))))

\* ----------------------------------------------------- table correlations
\* np.interp works on doubles whose rounding is far below the digits of the
\* tables.  Here the abscissae are in thousandths, the ordinates in
\* thousandths, the query is the exact ratio rn / rd of its two arguments
\* and the interpolated value is kept in units of 1 / TableUnit; float(...)
\* then brings it into the number format.
TableUnit == 10000

RECURSIVE GCD(_, _)
GCD(a, b) == IF b = 0 THEN a ELSE GCD(b, a % b)

\* The ratio n / d in lowest terms, d > 0.
Ratio(n, d) ==
    LET g == GCD(Abs(n), Abs(d))
        sign == IF d < 0 THEN 0 - 1 ELSE 1
    IN  [n |-> sign * (n \div g), d |-> sign * (d \div g)]

\* np.interp(r, xp, fp) for increasing xp: the boundary value outside
\* [xp[0], xp[-1]], else the value on the segment that holds r.
Interp(r, xp, fp) ==
    IF 1000 * r.n <= xp[1] * r.d THEN 10 * fp[1]
    ELSE IF 1000 * r.n >= xp[Len(xp)] * r.d THEN 10 * fp[Len(fp)]
    ELSE LET j == CHOOSE i \in 1..(Len(xp) - 1) :
                     xp[i] * r.d <= 1000 * r.n /\ 1000 * r.n < xp[i + 1] * r.d
             w == (xp[j + 1] - xp[j]) * r.d
             t == 1000 * r.n - xp[j] * r.d
         IN  RoundHalfEven(10 * (fp[j] * (w - t) + fp[j + 1] * t), w)

\* float(np.interp(...)): the value a / TableUnit as a number of the format,
\* with the interpolated value itself beside it.
ReturnedFine(a) == [err |-> NoErr, val |-> NumV(FlRat(a * Quantum, TableUnit)), fine |-> <<a>>]

\* A slip of ContractionTable: two digits of one ordinate are exchanged.
ContractionTable_Misread ==
    [x |-> <<0, 200, 400, 600, 800, 900, 1000>>,
     y |-> <<1000, 850, 680, 530, 300, 178, 0>>]

\* Idelchik 4.9 data: ratio -> a
ContractionTable ==
    [x |-> <<0, 200, 400, 600, 800, 900, 1000>>,
     y |-> <<1000, 850, 680, 503, 300, 178, 0>>]

\* max(0.0, min(1.0, r))
ClampUnit(r) ==
    IF r.n <= 0 THEN Ratio(0, 1) ELSE IF r.n >= r.d THEN Ratio(1, 1) ELSE r

sudden_contraction(kw) ==
    IF KwNames(kw) # {"inlet_area", "outlet_area"}
    THEN Raised("TypeError", <<"sudden_contraction">>)
    ELSE LET inlet_area == KwArg(kw, "inlet_area")
             outlet_area == KwArg(kw, "outlet_area")
         IN  IF ~(IsNum(inlet_area) /\ IsNum(outlet_area))
             THEN Raised("TypeError", <<"sudden_contraction">>)
             ELSE IF inlet_area.n <= 0 \/ outlet_area.n <= 0
             THEN Raised("ValueError", <<"Areas must be positive.">>)
             ELSE ReturnedFine(Interp(ClampUnit(Ratio(outlet_area.n, inlet_area.n)),
                                      ContractionTable.x, ContractionTable.y))

\* 1.0 / [(0.02*r + 0.98) * (1/lambda_circ - 0.27*r + 0.1)], r = D_inner / D_outer
f_annulus_turbulent(kw) ==
    IF KwNames(kw) # {"lambda_circ", "D_outer", "D_inner"}
    THEN Raised("TypeError", <<"f_annulus_turbulent">>)
    ELSE LET lambda_circ == KwArg(kw, "lambda_circ")
             D_outer == KwArg(kw, "D_outer")
             D_inner == KwArg(kw, "D_inner")
         IN  IF ~(IsNum(lambda_circ) /\ IsNum(D_outer) /\ IsNum(D_inner))
             THEN Raised("TypeError", <<"f_annulus_turbulent">>)
             ELSE IF D_outer.n <= 0 \/ D_inner.n <= 0
             THEN Raised("ValueError", <<"Diameters must be positive.">>)
             ELSE IF ~(D_inner.n < D_outer.n)
             THEN Raised("ValueError", <<"Require D_inner < D_outer for a concentric annulus.">>)
             ELSE IF lambda_circ.n <= 0
             THEN Raised("ValueError", <<"lambda_circ must be positive.">>)
             ELSE LET r == FDiv(D_inner.n, D_outer.n)
                      inv_lambda_ann ==
                          FMul(FAdd(FMul(Num(2, 100), r), Num(98, 100)),
                               FAdd(FSub(FDiv(One, lambda_circ.n), FMul(Num(27, 100), r)),
                                    Num(1, 10)))
                  IN  IF inv_lambda_ann <= 0
                      THEN Raised("ValueError", <<"Computed 1/lambda_ann <= 0">>)
                      ELSE Returned(NumV(FDiv(One, inv_lambda_ann)))

\* Idelchik 3.8: h/hydraulic_diameter -> sigma1
FacingBaffleTable ==
    [x |-> <<200, 300, 400, 500, 600, 700, 800, 1000>>,
     y |-> <<1600, 650, 370, 250, 150, 70, 40, 0>>]

\* k_prime + sigma1, k_prime = 0.5
sharp_thick_inlet_facing_baffle(kw) ==
    IF KwNames(kw) # {"baffle_gap", "hydraulic_diameter"}
    THEN Raised("TypeError", <<"sharp_thick_inlet_facing_baffle">>)
    ELSE LET baffle_gap == KwArg(kw, "baffle_gap")
             hydraulic_diameter == KwArg(kw, "hydraulic_diameter")
         IN  IF ~(IsNum(baffle_gap) /\ IsNum(hydraulic_diameter))
             THEN Raised("TypeError", <<"sharp_thick_inlet_facing_baffle">>)
             ELSE IF hydraulic_diameter.n <= 0
             THEN Raised("ValueError", <<"hydraulic_diameter must be > 0.">>)
             ELSE LET r == Ratio(baffle_gap.n, hydraulic_diameter.n)
                      sigma1 == IF r.n >= r.d THEN 0
                                ELSE Interp(r, FacingBaffleTable.x, FacingBaffleTable.y)
                  IN  ReturnedFine(TableUnit \div 2 + sigma1)

\* Idelchik 11.7, alpha = 0: h/D -> zeta
TubeToBaffleTable ==
    [x |-> <<500, 600, 700, 1000>>, y |-> <<1370, 1200, 1110, 1000>>]

discharge_from_straight_tube_to_baffle(kw) ==
    IF KwNames(kw) # {"baffle_gap", "hydraulic_diameter"}
    THEN Raised("TypeError", <<"discharge_from_straight_tube_to_baffle">>)
    ELSE LET baffle_gap == KwArg(kw, "baffle_gap")
             hydraulic_diameter == KwArg(kw, "hydraulic_diameter")
         IN  IF ~(IsNum(baffle_gap) /\ IsNum(hydraulic_diameter))
             THEN Raised("TypeError", <<"discharge_from_straight_tube_to_baffle">>)
             ELSE IF hydraulic_diameter.n <= 0
             THEN Raised("ValueError", <<"hydraulic_diameter must be > 0.">>)
             ELSE ReturnedFine(Interp(Ratio(baffle_gap.n, hydraulic_diameter.n),
                                      TubeToBaffleTable.x, TubeToBaffleTable.y))

\* x ** 0.75 for 0 <= x <= 1: the number of the format nearest to the root.
PowThreeQuarters(x) ==
    CHOOSE p \in 0..Quantum :
        /\ (p = 0 \/ (2 * p - 1) ^ 4 <= 16 * x ^ 3 * Quantum)
        /\ 16 * x ^ 3 * Quantum < (2 * p + 1) ^ 4

\* l/hydraulic_diameter -> zeta_pp, 60 deg and 140 deg
BevelTable60 ==
    [x |-> <<25, 50, 75, 100, 150, 600>>, y |-> <<400, 300, 230, 180, 150, 120>>]
BevelTable140 ==
    [x |-> <<25, 50, 75, 100, 150, 600>>, y |-> <<450, 420, 400, 380, 370, 360>>]

\* zeta_pp(l / hydraulic_diameter) * (1 - outlet_area / inlet_area) ** 0.75
beveled_contraction(kw, table, fn) ==
    IF KwNames(kw) # {"bevel_length", "hydraulic_diameter", "inlet_area", "outlet_area"}
    THEN Raised("TypeError", <<fn>>)
    ELSE LET bevel_length == KwArg(kw, "bevel_length")
             hydraulic_diameter == KwArg(kw, "hydraulic_diameter")
             inlet_area == KwArg(kw, "inlet_area")
             outlet_area == KwArg(kw, "outlet_area")
         IN  IF ~(IsNum(bevel_length) /\ IsNum(hydraulic_diameter)
                  /\ IsNum(inlet_area) /\ IsNum(outlet_area))
             THEN Raised("TypeError", <<fn>>)
             ELSE IF inlet_area.n <= 0 \/ outlet_area.n <= 0
             THEN Raised("ValueError", <<"Areas must be positive.">>)
             \* r = outlet_area / inlet_area; not (0.0 < r <= 1.0)
             ELSE IF ~(outlet_area.n <= inlet_area.n)
             THEN Raised("ValueError", <<"outlet_area / inlet_area must be in (0, 1].">>)
             ELSE IF hydraulic_diameter.n = 0
             THEN Raised("ZeroDivisionError", <<fn>>)
             ELSE LET zeta_pp == ReturnedFine(
                                    Interp(Ratio(bevel_length.n, hydraulic_diameter.n),
                                           table.x, table.y)).val
                      r == FDiv(outlet_area.n, inlet_area.n)
                  IN  Returned(NumV(FMul(zeta_pp.n, PowThreeQuarters(FSub(One, r)))))

beveled_contraction_alpha60(kw) ==
    beveled_contraction(kw, BevelTable60, "beveled_contraction_alpha60")

beveled_contraction_alpha140(kw) ==
    beveled_contraction(kw, BevelTable140, "beveled_contraction_alpha140")

GEOM_REGISTRY ==
    {"area_circle", "area_annulus", "hydraulic_diameter_annulus",
     "hydraulic_diameter_circle", "hydraulic_diameter_capsule_slot", "area_capsule_slot"}

LOSS_REGISTRY ==
    {"f_annulus_turbulent", "free_discharge", "sudden_expansion",
     "beveled_contraction_alpha60", "beveled_contraction_alpha140",
     "sharp_thick_inlet_facing_baffle", "discharge_from_straight_tube_to_baffle",
     "smooth_cone_diffuser_nar1", "sudden_contraction"}

\* registry[fn_name](**func_kwargs), and the direct call fn_name(**kw) of a
\* function of the geometry library that is in no registry.
CallRegistered(fn_name, kw) ==
    CASE fn_name = "area_circle" -> area_circle(kw)
      [] fn_name = "area_rectangle" -> area_rectangle(kw)
      [] fn_name = "area_capsule_slot" -> area_capsule_slot(kw)
      [] fn_name = "area_annulus" -> area_annulus(kw)
      [] fn_name = "wetted_perimeter_circle" -> wetted_perimeter_circle(kw)
      [] fn_name = "hydraulic_diameter_annulus" -> hydraulic_diameter_annulus(kw)
      [] fn_name = "hydraulic_diameter_generic" -> hydraulic_diameter_generic(kw)
      [] fn_name = "hydraulic_diameter_annulus_concentric" ->
            hydraulic_diameter_annulus_concentric(kw)
      [] fn_name = "hydraulic_diameter_rect_slot" -> hydraulic_diameter_rect_slot(kw)
      [] fn_name = "hydraulic_diameter_capsule_slot" -> hydraulic_diameter_capsule_slot(kw)
      [] fn_name = "hydraulic_diameter_circle" -> hydraulic_diameter_circle(kw)
      [] fn_name = "free_discharge" -> free_discharge(kw)
      [] fn_name = "sudden_expansion" -> sudden_expansion(kw)
      [] fn_name = "sudden_contraction" -> sudden_contraction(kw)
      [] fn_name = "f_annulus_turbulent" -> f_annulus_turbulent(kw)
      [] fn_name = "sharp_thick_inlet_facing_baffle" -> sharp_thick_inlet_facing_baffle(kw)
      [] fn_name = "discharge_from_straight_tube_to_baffle" ->
            discharge_from_straight_tube_to_baffle(kw)
      [] fn_name = "beveled_contraction_alpha60" -> beveled_contraction_alpha60(kw)
      [] fn_name = "beveled_contraction_alpha140" -> beveled_contraction_alpha140(kw)

\* ------------------------------------------------------------ resolve_refs
\* "${" + spec_type + "."
RefPrefix(spec_type) == IF spec_type = "geom" THEN "${geom." ELSE "${loss."

\* isinstance(v, str) and v.startswith(prefix) and v.endswith("}")
IsRef(v, spec_type) ==
    /\ v.t = "str"
    /\ Len(v.s) >= 2
    /\ Head(v.s) = RefPrefix(spec_type)
    /\ Last(v.s) = "}"

\* v[len(prefix) : -1]: the chunk between the prefix and the closing brace.
RefKey(v) == IF Len(v.s) = 2 THEN "" ELSE v.s[2]

RECURSIVE resolve_refs(_, _, _)
resolve_refs(func_kwargs, materialized, spec_type) ==
    IF func_kwargs = <<>> THEN [err |-> NoErr, kw |-> <<>>]
    ELSE LET k == Head(func_kwargs)[1]
             v == Head(func_kwargs)[2]
             rest == resolve_refs(Tail(func_kwargs), materialized, spec_type)
         IN  IF IsRef(v, spec_type)
             THEN IF RefKey(v) \in DOMAIN materialized[spec_type]
                  THEN [err |-> rest.err,
                        kw |-> <<<<k, materialized[spec_type][RefKey(v)]>>>> \o rest.kw]
                  ELSE [err |-> Err("KeyError", <<"Unknown", spec_type, "reference:">> \o v.s),
                        kw |-> <<>>]
             ELSE [err |-> rest.err, kw |-> <<<<k, v>>>> \o rest.kw]

\* ----------------------------------------------------------- build_network
VARIABLES
    pc,             \* "idle", or the place in build_network: "loop", "geom",
                    \* "loss", "build"; "ctor" for a direct Pipe/Junction call
    status,         \* "running", "returned" or "raised"
    err,            \* the exception raised (NoErr while none)
    inputs,         \* the document given to build_network
    idx,            \* enumerate index of the descriptor being processed
    network_list,   \* the elements appended so far
    inlet_plenum,   \* <<>> for None, else <<the Inlet>>
    materialized,   \* [geom |-> key -> value, loss |-> key -> value]
    ent,            \* entries of sample_case[nest_type] already materialized
    calls,          \* the registry calls made so far by this build, each
                    \* with the materialized geom map it found
    obj,            \* the Pipe/Junction last constructed (or being
                    \* constructed when its compute raised)
    df,             \* the frame create_summary_df returned for the Network
    csv,            \* what write_summary wrote for the Network
    ret             \* the last direct call of a geometry or loss function

vars == <<pc, status, err, inputs, idx, network_list, inlet_plenum,
          materialized, ent, calls, obj, df, csv, ret>>

NoObject == Elem("NoneType", <<>>, <<>>)
EmptyMaterialized == [geom |-> <<>>, loss |-> <<>>]

\* A slip of NestOrder: loss is evaluated before geom.
NestOrder_LossFirst == <<"loss", "geom">>

\* for nest_type in materialized.keys(): iteration order "geom" then "loss"
NestOrder == <<"geom", "loss">>

\* isinstance(spec, (int, float)) or key == "flow_direction"
IsPassthrough(key, spec) == IsNum(spec) \/ key = "flow_direction"

\* One pass of the inner loop body for the entry key: spec of
\* sample_case[nest_type]: the exception raised if any, the materialized maps
\* afterwards and the registry call made (a sequence of length at most one).
MaterializeEntry(sample_case, nest_type, key, spec, mat) ==
    IF IsPassthrough(key, spec)
    THEN [err |-> NoErr, mat |-> [mat EXCEPT ![nest_type] = (key :> spec) @@ @], call |-> <<>>]
    ELSE IF spec.t = "map"
    THEN IF "func" \notin spec.keys
         THEN [err |-> Err("KeyError", <<"func">>), mat |-> mat, call |-> <<>>]
         ELSE IF "params" \notin spec.keys
         THEN [err |-> Err("KeyError", <<"params">>), mat |-> mat, call |-> <<>>]
         ELSE
         LET resolved == IF nest_type = "loss"
                         THEN resolve_refs(spec.params, mat, "geom")
                         ELSE [err |-> NoErr, kw |-> spec.params]
             registry == IF nest_type = "geom" THEN GEOM_REGISTRY ELSE LOSS_REGISTRY
         IN  IF resolved.err # NoErr
             THEN [err |-> resolved.err, mat |-> mat, call |-> <<>>]
             ELSE IF spec.fn \notin registry
             THEN [err |-> Err("KeyError", <<spec.fn>>), mat |-> mat, call |-> <<>>]
             ELSE
             LET r == CallRegistered(spec.fn, resolved.kw)
                 c == [name |-> sample_case.name, nest_type |-> nest_type, key |-> key,
                       fn_name |-> spec.fn, params |-> spec.params,
                       kwargs |-> resolved.kw, geom |-> mat.geom]
             IN  IF r.err # NoErr
                 THEN [err |-> r.err, mat |-> mat, call |-> <<c>>]
                 ELSE [err |-> NoErr,
                       mat |-> [mat EXCEPT ![nest_type] = (key :> r.val) @@ @],
                       call |-> <<c>>]
    ELSE [err |-> Err("TypeError", <<sample_case.name, nest_type, key>>),
          mat |-> mat, call |-> <<>>]

\* The first key of keys that f lacks, as a sequence of length at most one.
RECURSIVE FirstMissing(_, _)
FirstMissing(keys, f) ==
    IF keys = <<>> THEN <<>>
    ELSE IF Head(keys) \notin DOMAIN f THEN <<Head(keys)>>
    ELSE FirstMissing(Tail(keys), f)

\* if idx != 0: raise IndexError
InletAllowed(i) == i = 0

\* A slip of OutletAllowed: the position of an outlet is not checked.
OutletAllowed_Anywhere(i, n) == TRUE

\* if idx != (len(inputs["network"]) - 1): raise IndexError
OutletAllowed(i, n) == i = n - 1

\* A slip of FlowSplits: the declared divisor is not read.
FlowSplits_Ignored(sample_case) == NumV(One)

\* sample_case["ref_area"].get("flow_splits", 1)
FlowSplits(sample_case) ==
    IF sample_case.ref_area.flow_splits = <<>> THEN NumV(One)
    ELSE sample_case.ref_area.flow_splits[1]

\* The else branch after the materialize loops (lines 134-159): evaluates the
\* constructor arguments in source order and constructs the Pipe or Junction.
\* Yields the exception if any and the object (NoObject when an argument
\* raised before the constructor ran).
Instantiate(sample_case, mat, inlet, net) ==
    LET station == sample_case.ref_area.station
        failed(cls, msg) == [err |-> Err(cls, msg), obj |-> NoObject]
    IN
    IF station \notin DOMAIN mat.geom THEN failed("KeyError", <<station>>)
    ELSE
    LET ref_area == mat.geom[station]
        flow_splits == FlowSplits(sample_case)
    IN
    IF sample_case.type = "pipe"
    THEN LET g == FirstMissing(<<"length", "flow_direction", "hydraulic_diameter">>, mat.geom)
             h == FirstMissing(<<"inlet_area", "outlet_area">>, mat.geom)
         IN  IF g # <<>> THEN failed("KeyError", g)
             ELSE IF "friction" \notin DOMAIN mat.loss THEN failed("KeyError", <<"friction">>)
             ELSE IF inlet = <<>> THEN failed("AttributeError", <<"mass_flow_rate">>)
             ELSE IF h # <<>> THEN failed("KeyError", h)
             ELSE
             LET a == [name |-> StrV(<<sample_case.name>>),
                       length |-> mat.geom["length"],
                       flow_direction |-> mat.geom["flow_direction"],
                       hydraulic_diameter |-> mat.geom["hydraulic_diameter"],
                       friction_factor |-> mat.loss["friction"],
                       mass_flow_rate |-> inlet[1].attrs.mass_flow_rate,
                       density |-> inlet[1].attrs.density,
                       inlet_area |-> mat.geom["inlet_area"],
                       outlet_area |-> mat.geom["outlet_area"],
                       ref_area |-> ref_area,
                       alpha1 |-> NumV(One), alpha2 |-> NumV(One)]
                 r == PipeCompute(a, Last(net))
             IN  [err |-> r.err, obj |-> Elem("Pipe", r.attrs, <<Last(net)>>)]
    ELSE IF inlet = <<>> THEN failed("AttributeError", <<"mass_flow_rate">>)
         ELSE IF ~(IsNum(inlet[1].attrs.mass_flow_rate) /\ IsNum(flow_splits))
         THEN failed("TypeError", <<"mass_flow_rate">>)
         ELSE IF flow_splits.n = 0 THEN failed("ZeroDivisionError", <<"flow_splits">>)
         ELSE IF "form" \notin DOMAIN mat.loss THEN failed("KeyError", <<"form">>)
         ELSE
         LET a == [name |-> StrV(<<sample_case.name>>),
                   ref_area |-> ref_area,
                   mass_flow_rate |-> NumV(FDiv(inlet[1].attrs.mass_flow_rate.n, flow_splits.n)),
                   density |-> inlet[1].attrs.density,
                   form_loss |-> mat.loss["form"]]
             r == JunctionCompute(a, Last(net))
         IN  [err |-> r.err, obj |-> Elem("Junction", r.attrs, <<Last(net)>>)]

\* ----------------------------------------------------------------- summary
\* Network.ALL_COLUMNS: the columns in display order, each with its unit
\* ("" where the source has None).
ALL_COLUMNS ==
    << <<"name", "">>, <<"mass_flow_rate", "kg/s">>, <<"inlet_velocity", "m/s">>,
       <<"outlet_velocity", "m/s">>, <<"ref_velocity", "m/s">>, <<"inlet_area", "m^2">>,
       <<"outlet_area", "m^2">>, <<"ref_area", "m^2">>, <<"length", "m">>,
       <<"hydraulic_diameter", "m">>, <<"friction_factor", "-">>, <<"form_loss", "-">>,
       <<"dp_gravity", "kPa">>, <<"dp_accel", "kPa">>, <<"dp_loss", "kPa">>,
       <<"inlet_pressure", "kPa">>, <<"outlet_pressure", "kPa">>,
       <<"pressure_drop", "kPa">>, <<"cumulative_dp", "kPa">> >>

TYPE_COLUMN == "type"

\* list(ALL_COLUMNS.keys())
ColumnKeys == [i \in DOMAIN ALL_COLUMNS |-> ALL_COLUMNS[i][1]]

\* ALL_COLUMNS[col]
Unit(col) == ALL_COLUMNS[CHOOSE i \in DOMAIN ALL_COLUMNS : ALL_COLUMNS[i][1] = col][2]

PIPE_COLS == SelectSeq(ColumnKeys, LAMBDA c : c # "form_loss")

JUNCTION_COLS ==
    <<"name", "mass_flow_rate", "ref_velocity", "ref_area", "form_loss", "dp_loss",
      "inlet_pressure", "outlet_pressure", "pressure_drop">>

PLENUM_COLS == <<"name">>

\* base[:1] + [TYPE_COLUMN] + base[1:]
column_order_with_type == <<Head(ColumnKeys), TYPE_COLUMN>> \o Tail(ColumnKeys)

\* mapping.get(comp_kind, PLENUM_COLS)
cols_for_kind(comp_kind) ==
    CASE comp_kind = "pipe" -> PIPE_COLS
      [] comp_kind = "junction" -> JUNCTION_COLS
      [] OTHER -> PLENUM_COLS

\* type(comp).__name__.lower()
CompKind(comp) ==
    CASE comp.kind = "Inlet" -> "inlet"
      [] comp.kind = "Outlet" -> "outlet"
      [] comp.kind = "Pipe" -> "pipe"
      [] comp.kind = "Junction" -> "junction"

Range(seq) == {seq[i] : i \in DOMAIN seq}

\* df.loc[idx, target_cols] = target_vals: the row of one element, a value
\* per column of the frame, NoneV where nothing was assigned.
SummaryRow(comp) ==
    [c \in Range(column_order_with_type) |->
        IF c = TYPE_COLUMN THEN StrV(<<CompKind(comp)>>)
        ELSE IF c \in Range(cols_for_kind(CompKind(comp))) THEN GetAttr(comp, c)
        ELSE NoneV]

\* A slip of Fillna: a missing drop is taken as one unit.
Fillna_One(v) == IF v.t = "none" THEN One ELSE ToFloat(v.n)

\* .astype("float64[pyarrow]").fillna(0) of one cell
Fillna(v) == IF v.t = "none" THEN 0 ELSE ToFloat(v.n)

\* .cumsum(): each cell is the one before plus the own value.
RECURSIVE cumsum(_)
cumsum(xs) ==
    IF xs = <<>> THEN <<>>
    ELSE LET front == cumsum(SubSeq(xs, 1, Len(xs) - 1))
         IN  Append(front, IF front = <<>> THEN Last(xs) ELSE FAdd(Last(front), Last(xs)))

\* df[col].astype(...) of one cell: a float (missing stays missing) for a
\* column with a unit, a string otherwise.
AsType(col, v) ==
    IF col = TYPE_COLUMN THEN v
    ELSE IF Unit(col) # "" THEN (IF v.t = "num" THEN NumV(ToFloat(v.n)) ELSE NoneV)
    ELSE v

Frame(rows) == [made |-> TRUE, rows |-> rows]
NoFrame == [made |-> FALSE, rows |-> <<>>]

\* Network.create_summary_df
create_summary_df(net) ==
    LET filled == [i \in DOMAIN net |-> SummaryRow(net[i])]
        cum == cumsum([i \in DOMAIN net |-> Fillna(filled[i]["pressure_drop"])])
    IN  Frame([i \in DOMAIN net |->
                 [c \in Range(column_order_with_type) |->
                     IF c = "cumulative_dp" THEN NumV(cum[i])
                     ELSE AsType(c, filled[i][c])]])

\* Cells of the exported frame.  A float cell is n / 2^k quanta: the division
\* by 1000 keeps MantBits significant bits at whatever magnitude, as a double
\* does, so k grows as the value shrinks.
FloatCell(n, k) == [t |-> "float", n |-> n, k |-> k, s |-> <<>>]
StrCell(s) == [t |-> "str", n |-> 0, k |-> 0, s |-> s]
NaCell == [t |-> "na", n |-> 0, k |-> 0, s |-> <<>>]

\* A cell of the frame create_summary_df returned.
ToCell(v) ==
    CASE v.t = "num" -> FloatCell(v.n, 0)
      [] v.t = "str" -> StrCell(v.s)
      [] OTHER -> NaCell

\* The least k >= 0 with a * 2^k / 1000 >= 2^(MantBits - 1), for a > 0.
RECURSIVE ScaleShift(_, _)
ScaleShift(a, k) ==
    IF a * 2 ^ k >= 1000 * 2 ^ (MantBits - 1) THEN k ELSE ScaleShift(a, k + 1)

\* x / 1000 of one cell: the representable number nearest to the quotient.
DivThousand(c) ==
    IF c.t # "float" THEN c
    ELSE IF c.n = 0 THEN c
    ELSE LET a == Abs(c.n)
             k == ScaleShift(a, 0)
             m == RoundHalfEven(a * 2 ^ k, 1000)
             sign == IF c.n < 0 THEN 0 - 1 ELSE 1
         IN  IF k = 0 THEN FloatCell(FlRat(c.n, 1000), c.k)
             ELSE IF m = 2 ^ MantBits THEN FloatCell(sign * (m \div 2), c.k + k - 1)
             ELSE FloatCell(sign * m, c.k + k)

\* A slip of ScaledColumn: every column with a unit is divided.
ScaledColumn_AnyUnit(col) == col # TYPE_COLUMN /\ Unit(col) # ""

\* if unit == "kPa"
ScaledColumn(col) == col # TYPE_COLUMN /\ Unit(col) = "kPa"

\* The largest x <= x0 with 10^x <= a / d, for a > 0 and d > 0.
RECURSIVE DecExp(_, _, _)
DecExp(a, d, x) ==
    IF (IF x >= 0 THEN a \div d >= 10 ^ x ELSE a * 10 ^ (0 - x) >= d) THEN x
    ELSE DecExp(a, d, x - 1)

Text(neg, digits, exp, s) == [neg |-> neg, digits |-> digits, exp |-> exp, s |-> s]

\* float_format="%.3G" of one cell: sign, three significant decimal digits
\* (as an integer 100..999, or 0) and the decimal exponent of the first
\* digit; a string cell is written as it is and a missing one as "".
Format3G(c) ==
    IF c.t = "str" THEN Text(FALSE, 0, 0, c.s)
    ELSE IF c.t = "na" THEN Text(FALSE, 0, 0, <<>>)
    ELSE IF c.n = 0 THEN Text(FALSE, 0, 0, <<"0">>)
    ELSE LET a == Abs(c.n)
             d == 2 ^ c.k * Quantum
             x == DecExp(a, d, 9)
             q == IF x <= 2 THEN RoundHalfEven(a * 10 ^ (2 - x), d)
                  ELSE RoundHalfEven(a, d * 10 ^ (x - 2))
         IN  IF q = 1000 THEN Text(c.n < 0, 100, x + 1, <<>>)
             ELSE Text(c.n < 0, q, x, <<>>)

\* header_with_unit(col)
header_with_unit(col) ==
    IF col # TYPE_COLUMN /\ Unit(col) # "" THEN <<col, " [", Unit(col), "]">> ELSE <<col>>

NoFile == [made |-> FALSE, frame |-> <<>>, text |-> <<>>, headers |-> <<>>]

\* Network.write_summary: the frame handed to to_csv (after the division of
\* the kPa columns), the text of its cells and the header line.
write_summary(net) ==
    LET base == create_summary_df(net).rows
        frame == [i \in DOMAIN base |->
                    [c \in Range(column_order_with_type) |->
                        IF ScaledColumn(c) THEN DivThousand(ToCell(base[i][c]))
                        ELSE ToCell(base[i][c])]]
    IN  [made |-> TRUE,
         frame |-> frame,
         text |-> [i \in DOMAIN frame |->
                     [c \in Range(column_order_with_type) |-> Format3G(frame[i][c])]],
         headers |-> [j \in DOMAIN column_order_with_type |->
                        header_with_unit(column_order_with_type[j])]]

NoCall == [fn |-> "", kw |-> <<>>, err |-> NoErr, val |-> NoneV, fine |-> <<>>]

\* ------------------------------------------------------------------ inputs
\* Direction strings, character by character.
DirStrings ==
    {<<"u", "p">>, <<"U", "P", " ">>, <<" ", "U", "p">>, <<"\t", "u", "p", "\n">>,
     <<"d", "o", "w", "n">>, <<"D", "O", "W", "N">>,
     <<"s", "i", "d", "e">>, <<"S", "i", "d", "e">>, <<" ", "s", "i", "d", "e", " ">>,
     <<"u", " ", "p">>, <<"u", "p", "p">>, <<" ">>, <<>>,
     <<"s", "i", "d", "e", "w", "a", "y", "s">>}

NoRefArea == [station |-> "", flow_splits |-> <<>>]

InletD(pressure) ==
    [type |-> "inlet", name |-> "in",
     flow |-> [pressure |-> pressure, mass_flow_rate |-> NumV(Num(4, 1)),
               density |-> NumV(Num(2, 1)), temperature |-> NumV(Num(20, 1))],
     geom |-> <<>>, loss |-> <<>>, ref_area |-> NoRefArea]

OutletD ==
    [type |-> "outlet", name |-> "out", flow |-> <<>>,
     geom |-> <<>>, loss |-> <<>>, ref_area |-> NoRefArea]

InteriorD(type, name, geom, loss, station, flow_splits) ==
    [type |-> type, name |-> name, flow |-> <<>>, geom |-> geom, loss |-> loss,
     ref_area |-> [station |-> station, flow_splits |-> flow_splits]]

PipeD(name, flow_direction, inlet_area, flow_splits) ==
    InteriorD("pipe", name,
              << <<"length", NumV(One)>>,
                 <<"flow_direction", flow_direction>>,
                 <<"hydraulic_diameter",
                   CallV("hydraulic_diameter_circle", << <<"D", NumV(One)>> >>)>>,
                 <<"inlet_area", inlet_area>>,
                 <<"outlet_area", NumV(Num(2, 1))>> >>,
              << <<"friction", NumV(Half)>> >>,
              "inlet_area", flow_splits)

GeomRef(key) == StrV(<<"${geom.", key, "}">>)

JunctionD(type, name, geom, loss) ==
    InteriorD(type, name, geom, loss, "outlet_area", << NumV(Num(2, 1)) >>)

PlainAreas == << <<"inlet_area", NumV(One)>>, <<"outlet_area", NumV(Num(2, 1))>> >>

Descriptors ==
    { InletD(NumV(Num(40, 1))), InletD(NoneV), OutletD,
      PipeD("p_up", StrV(<<"U", "P", " ">>),
            CallV("area_circle", << <<"D", NumV(Num(2, 1))>> >>), <<>>),
      PipeD("p_down", StrV(<<"d", "o", "w", "n">>), NumV(One), << NumV(Num(2, 1)) >>),
      PipeD("p_bad", StrV(<<"s", "i", "d", "e", "w", "a", "y", "s">>), NumV(0), <<>>),
      PipeD("p_list", ListV, NumV(One), <<>>),
      JunctionD("junction", "j_ref", PlainAreas,
                << <<"form", CallV("sudden_expansion",
                                   << <<"inlet_area", GeomRef("inlet_area")>>,
                                      <<"outlet_area", GeomRef("outlet_area")>> >>)>> >>),
      JunctionD("junction", "j_badref", PlainAreas,
                << <<"form", CallV("sudden_expansion",
                                   << <<"inlet_area", NumV(One)>>,
                                      <<"outlet_area", GeomRef("exit_area")>> >>)>> >>),
      JunctionD("valve", "j_lit",
                << <<"flow_direction", ListV>>, <<"outlet_area", NumV(One)>> >>,
                << <<"form", NumV(Num(3, 1))>> >>),
      JunctionD("junction", "j_str",
                << <<"outlet_area", NumV(One)>>, <<"shape", StrV(<<"round">>)>> >>,
                << <<"form", NumV(One)>> >>),
      JunctionD("junction", "j_noparams", PlainAreas,
                << <<"form", MapV({"func"}, "free_discharge", <<>>)>> >>),
      JunctionD("junction", "j_unknown", PlainAreas,
                << <<"form", CallV("free_discharge", <<>>)>>,
                   <<"extra", CallV("elbow", <<>>)>> >>) }

InputDocs ==
    {[name |-> "net", network |-> n] :
        n \in UNION {[1..k -> Descriptors] : k \in 0..MaxDesc}}

\* Complete chains: an inlet, up to MaxChain pipes and junctions that build,
\* an outlet.
Described(name) == CHOOSE d \in Descriptors : d.name = name

ChainInlets == {InletD(NumV(Num(40, 1))), InletD(NumV(Num(100, 1)))}

ChainInteriors ==
    { Described("p_up"), Described("p_down"), Described("j_ref"),
      InteriorD("junction", "j_plain", PlainAreas, << <<"form", NumV(Num(3, 1))>> >>,
                "inlet_area", <<>>) }

ChainDocs ==
    {[name |-> "chain", network |-> <<i>> \o c \o <<OutletD>>] :
        i \in ChainInlets,
        c \in UNION {[1..k -> ChainInteriors] : k \in 2..MaxChain}}

\* Arguments of direct calls of the loss functions.
LossAreas ==
    {NumV(Num(0 - 1, 1)), NumV(0), NumV(One), NumV(Num(2, 1)), NumV(Num(4, 1)),
     NumV(Num(5, 1)), NumV(Num(9, 1)), NumV(Num(10, 1))}

AreaPairs ==
    {<< <<"inlet_area", a>>, <<"outlet_area", b>> >> : a \in LossAreas, b \in LossAreas}

\* Lengths, diameters and friction factors, valid and not.
LossSizes == {NumV(Num(0 - 1, 1)), NumV(0), NumV(Num(1, 4)), NumV(One), NumV(Num(2, 1))}

AnnulusArgs ==
    {<< <<"lambda_circ", f>>, <<"D_outer", o>>, <<"D_inner", i>> >> :
        f \in LossSizes, o \in LossSizes, i \in LossSizes}

BaffleArgs ==
    {<< <<"baffle_gap", h>>, <<"hydraulic_diameter", d>> >> :
        h \in LossSizes, d \in LossSizes}

BevelArgs ==
    {<< <<"bevel_length", l>>, <<"hydraulic_diameter", d>>,
        <<"inlet_area", a>>, <<"outlet_area", b>> >> :
        l \in {NumV(0), NumV(Num(1, 4))}, d \in LossSizes,
        a \in LossSizes, b \in LossSizes}

LossCalls ==
    {[fn |-> f, kw |-> kw] : f \in {"sudden_contraction", "sudden_expansion"}, kw \in AreaPairs}
    \cup {[fn |-> "f_annulus_turbulent", kw |-> kw] : kw \in AnnulusArgs}
    \cup {[fn |-> f, kw |-> kw] :
            f \in {"sharp_thick_inlet_facing_baffle", "discharge_from_straight_tube_to_baffle"},
            kw \in BaffleArgs}
    \cup {[fn |-> f, kw |-> kw] :
            f \in {"beveled_contraction_alpha60", "beveled_contraction_alpha140"},
            kw \in BevelArgs}

\* Arguments of direct calls of the geometry functions.
GeomSizes == {NumV(Num(0 - 1, 1)), NumV(0), NumV(One), NumV(Num(2, 1)), NumV(Num(3, 1))}

PairArgs(a, b) == {<< <<a, x>>, <<b, y>> >> : x \in GeomSizes, y \in GeomSizes}

GeomCalls ==
    {[fn |-> f, kw |-> << <<"D", x>> >>] :
        f \in {"area_circle", "hydraulic_diameter_circle", "wetted_perimeter_circle"},
        x \in GeomSizes}
    \cup {[fn |-> f, kw |-> kw] :
            f \in {"area_annulus", "hydraulic_diameter_annulus",
                   "hydraulic_diameter_annulus_concentric"},
            kw \in PairArgs("D_outer", "D_inner")}
    \cup {[fn |-> f, kw |-> kw] :
            f \in {"area_capsule_slot", "hydraulic_diameter_capsule_slot"},
            kw \in PairArgs("b", "L")}
    \cup {[fn |-> "area_rectangle", kw |-> kw] : kw \in PairArgs("L", "w")}
    \cup {[fn |-> "hydraulic_diameter_rect_slot", kw |-> kw] : kw \in PairArgs("a", "b")}
    \cup {[fn |-> "hydraulic_diameter_generic", kw |-> kw] : kw \in PairArgs("A", "P_w")}

\* Upstream objects given to a directly constructed Pipe or Junction.
Upstreams ==
    { NoObject,
      NewOutlet(StrV(<<"out">>), NoObject),
      NewInlet(StrV(<<"in">>), NoneV, NumV(Num(4, 1)), NumV(Num(2, 1)), NumV(Num(20, 1))),
      NewInlet(StrV(<<"in">>), NumV(0), NumV(Num(4, 1)), NumV(Num(2, 1)), NumV(Num(20, 1))),
      NewInlet(StrV(<<"in">>), NumV(Num(40, 1)), NumV(Num(4, 1)), NumV(Num(2, 1)),
               NumV(Num(20, 1))) }

DirValues == {StrV(d) : d \in DirStrings} \cup {ListV, NumV(Num(5, 1))}

PipeArgs ==
    {[name |-> StrV(<<"p">>), length |-> NumV(One), hydraulic_diameter |-> NumV(hd),
      friction_factor |-> NumV(Half), mass_flow_rate |-> NumV(Num(4, 1)),
      density |-> NumV(Num(2, 1)), inlet_area |-> NumV(ia), outlet_area |-> NumV(oa),
      ref_area |-> NumV(ra), flow_direction |-> fd,
      alpha1 |-> NumV(One), alpha2 |-> NumV(One)] :
        hd \in {0, One}, ia \in {0, One}, oa \in {0, Num(2, 1)}, ra \in {0, One},
        fd \in DirValues}

JunctionArgs ==
    {[name |-> StrV(<<"j">>), ref_area |-> NumV(ra), form_loss |-> NumV(k),
      mass_flow_rate |-> NumV(Num(4, 1)), density |-> NumV(rho)] :
        ra \in {0, One, Num(2, 1)}, k \in {Half, Num(3, 1)}, rho \in {One, Num(2, 1)}}

\* ----------------------------------------------------------------- actions
Init ==
    /\ pc = "idle"
    /\ status = "running"
    /\ err = NoErr
    /\ inputs = [name |-> "", network |-> <<>>]
    /\ idx = 0
    /\ network_list = <<>>
    /\ inlet_plenum = <<>>
    /\ materialized = EmptyMaterialized
    /\ ent = 0
    /\ calls = <<>>
    /\ obj = NoObject
    /\ df = NoFrame
    /\ csv = NoFile
    /\ ret = NoCall

Running(place) == pc = place /\ status = "running"

\* The descriptor at the loop index (enumerate is 0-based).
SampleCase == inputs.network[idx + 1]

Raise(e) == status' = "raised" /\ err' = e

\* build_network(inputs) is entered.
CallBuildNetwork ==
    /\ Running("idle")
    /\ \E doc \in InputDocs \cup ChainDocs : inputs' = doc
    /\ pc' = "loop"
    /\ idx' = 0
    /\ network_list' = <<>>
    /\ inlet_plenum' = <<>>
    /\ UNCHANGED <<status, err, materialized, ent, calls, obj,
                   df, csv, ret>>

\* if sample_case["type"] == "inlet"
LoopInlet ==
    /\ Running("loop")
    /\ idx < Len(inputs.network)
    /\ SampleCase.type = "inlet"
    /\ IF InletAllowed(idx)
       THEN LET f == SampleCase.flow
                inlet == NewInlet(StrV(<<SampleCase.name>>), f.pressure,
                                  f.mass_flow_rate, f.density, f.temperature)
            IN  /\ inlet_plenum' = <<inlet>>
                /\ network_list' = Append(network_list, inlet)
                /\ idx' = idx + 1
                /\ UNCHANGED <<status, err>>
       ELSE /\ Raise(Err("IndexError", <<"Inlet node should be first">>))
            /\ UNCHANGED <<inlet_plenum, network_list, idx>>
    /\ UNCHANGED <<pc, inputs, materialized, ent, calls, obj,
                   df, csv, ret>>

\* elif sample_case["type"] == "outlet": ... break, then the return
LoopOutlet ==
    /\ Running("loop")
    /\ idx < Len(inputs.network)
    /\ SampleCase.type = "outlet"
    /\ IF ~OutletAllowed(idx, Len(inputs.network))
       THEN /\ Raise(Err("IndexError", <<"Outlet node should be last">>))
            /\ UNCHANGED network_list
       ELSE IF network_list = <<>>
       THEN /\ Raise(Err("IndexError", <<"list index out of range">>))
            /\ UNCHANGED network_list
       ELSE /\ network_list' =
                  Append(network_list, NewOutlet(StrV(<<SampleCase.name>>), Last(network_list)))
            /\ status' = "returned"
            /\ UNCHANGED err
    /\ UNCHANGED <<pc, inputs, idx, inlet_plenum, materialized, ent, calls, obj,
                   df, csv, ret>>

\* else: materialized = {"geom": {}, "loss": {}}
LoopInterior ==
    /\ Running("loop")
    /\ idx < Len(inputs.network)
    /\ SampleCase.type \notin {"inlet", "outlet"}
    /\ materialized' = EmptyMaterialized
    /\ pc' = NestOrder[1]
    /\ ent' = 0
    /\ UNCHANGED <<status, err, inputs, idx, network_list, inlet_plenum, calls, obj,
                   df, csv, ret>>

InNest == pc \in {"geom", "loss"} /\ status = "running"

\* One entry of sample_case[nest_type].items().
MaterializeNext ==
    /\ InNest
    /\ ent < Len(SampleCase[pc])
    /\ LET item == SampleCase[pc][ent + 1]
           r == MaterializeEntry(SampleCase, pc, item[1], item[2], materialized)
       IN  /\ calls' = calls \o r.call
           /\ materialized' = r.mat
           /\ IF r.err = NoErr
              THEN ent' = ent + 1 /\ UNCHANGED <<status, err>>
              ELSE Raise(r.err) /\ UNCHANGED ent
    /\ UNCHANGED <<pc, inputs, idx, network_list, inlet_plenum, obj,
                   df, csv, ret>>

\* The items of one nest_type are exhausted: on to the next, or to the
\* construction of the element.
NestDone ==
    /\ InNest
    /\ ent = Len(SampleCase[pc])
    /\ LET pos == CHOOSE i \in DOMAIN NestOrder : NestOrder[i] = pc
       IN  pc' = IF pos < Len(NestOrder) THEN NestOrder[pos + 1] ELSE "build"
    /\ ent' = 0
    /\ UNCHANGED <<status, err, inputs, idx, network_list, inlet_plenum,
                   materialized, calls, obj,
                   df, csv, ret>>

\* ref_area, flow_splits, Pipe(...) or Junction(...), network_list.append
InstantiateStep ==
    /\ Running("build")
    /\ LET r == Instantiate(SampleCase, materialized, inlet_plenum, network_list)
       IN  /\ obj' = r.obj
           /\ IF r.err = NoErr
              THEN /\ network_list' = Append(network_list, r.obj)
                   /\ idx' = idx + 1
                   /\ pc' = "loop"
                   /\ UNCHANGED <<status, err>>
              ELSE /\ Raise(r.err)
                   /\ UNCHANGED <<network_list, idx, pc>>
    /\ UNCHANGED <<inputs, inlet_plenum, materialized, ent, calls,
                   df, csv, ret>>

\* The loop is exhausted: return Network(name=inputs["name"], network_list)
Return ==
    /\ Running("loop")
    /\ idx = Len(inputs.network)
    /\ status' = "returned"
    /\ UNCHANGED <<pc, err, inputs, idx, network_list, inlet_plenum,
                   materialized, ent, calls, obj,
                   df, csv, ret>>

\* network.create_summary_df() on the Network build_network returned.
CreateSummaryDf ==
    /\ pc = "loop" /\ status = "returned"
    /\ ~df.made
    /\ df' = create_summary_df(network_list)
    /\ UNCHANGED <<pc, status, err, inputs, idx, network_list, inlet_plenum,
                   materialized, ent, calls, obj, csv, ret>>

\* network.write_summary(csv_path) on the Network build_network returned.
WriteSummary ==
    /\ pc = "loop" /\ status = "returned"
    /\ ~csv.made
    /\ csv' = write_summary(network_list)
    /\ UNCHANGED <<pc, status, err, inputs, idx, network_list, inlet_plenum,
                   materialized, ent, calls, obj, df, ret>>

\* The call fn(**kw) of a registered function, as recorded in ret.
CallRecord(fn, kw) ==
    LET r == CallRegistered(fn, kw)
    IN  [fn |-> fn, kw |-> kw, err |-> r.err, val |-> r.val,
         fine |-> IF "fine" \in DOMAIN r THEN r.fine ELSE <<>>]

\* A loss function called directly.
CallLoss ==
    /\ Running("idle")
    /\ \E c \in LossCalls :
          /\ ret' = CallRecord(c.fn, c.kw)
          /\ err' = ret'.err
          /\ status' = IF ret'.err = NoErr THEN "returned" ELSE "raised"
    /\ pc' = "call"
    /\ UNCHANGED <<inputs, idx, network_list, inlet_plenum, materialized, ent, calls,
                   obj, df, csv>>

\* A function of the geometry library called directly.
CallGeometry ==
    /\ Running("idle")
    /\ \E c \in GeomCalls :
          /\ ret' = CallRecord(c.fn, c.kw)
          /\ err' = ret'.err
          /\ status' = IF ret'.err = NoErr THEN "returned" ELSE "raised"
    /\ pc' = "call"
    /\ UNCHANGED <<inputs, idx, network_list, inlet_plenum, materialized, ent, calls,
                   obj, df, csv>>

\* Pipe(...) called directly.
ConstructPipe ==
    /\ Running("idle")
    /\ \E a \in PipeArgs, up \in Upstreams :
          LET r == PipeCompute(a, up)
          IN  /\ obj' = Elem("Pipe", r.attrs, <<up>>)
              /\ err' = r.err
              /\ status' = IF r.err = NoErr THEN "returned" ELSE "raised"
    /\ pc' = "ctor"
    /\ UNCHANGED <<inputs, idx, network_list, inlet_plenum, materialized, ent, calls,
                   df, csv, ret>>

\* Junction(...) called directly.
ConstructJunction ==
    /\ Running("idle")
    /\ \E a \in JunctionArgs, up \in Upstreams :
          LET r == JunctionCompute(a, up)
          IN  /\ obj' = Elem("Junction", r.attrs, <<up>>)
              /\ err' = r.err
              /\ status' = IF r.err = NoErr THEN "returned" ELSE "raised"
    /\ pc' = "ctor"
    /\ UNCHANGED <<inputs, idx, network_list, inlet_plenum, materialized, ent, calls,
                   df, csv, ret>>

Next ==
    \/ CallBuildNetwork
    \/ LoopInlet
    \/ LoopOutlet
    \/ LoopInterior
    \/ MaterializeNext
    \/ NestDone
    \/ InstantiateStep
    \/ Return
    \/ CreateSummaryDf
    \/ WriteSummary
    \/ CallLoss
    \/ CallGeometry
    \/ ConstructPipe
    \/ ConstructJunction

Spec == Init /\ [][Next]_vars

\* ------------------------------------------------------------- properties
Interior(e) == e.kind \in {"Pipe", "Junction"}

\* build_network has returned its Network (network_list).
BuildReturned == pc = "loop" /\ status = "returned"

\* The constructor that made obj raised: obj holds what was set until then.
ConstructionFailed == status = "raised" /\ pc \in {"build", "ctor"}

PipeDerived ==
    {"inlet_velocity", "outlet_velocity", "ref_velocity", "dp_loss", "dp_gravity",
     "dp_accel", "pressure_drop", "inlet_pressure", "outlet_pressure"}

JunctionDerived == {"ref_velocity", "dp_loss", "pressure_drop", "inlet_pressure", "outlet_pressure"}

\* C1 as stated: in a returned Network every element after the first has an
\* inlet_pressure equal to its predecessor's outlet_pressure.
C1_ChainEveryElement ==
    BuildReturned =>
        \A i \in 2..Len(network_list) :
            /\ "inlet_pressure" \in DOMAIN network_list[i].attrs
            /\ network_list[i].attrs.inlet_pressure = GetAttr(network_list[i - 1], "outlet_pressure")

\* C1 amended: in a returned Network every Pipe or Junction has an
\* inlet_pressure equal to the outlet_pressure of the element before it.
C1_ChainInterior ==
    BuildReturned =>
        \A i \in 2..Len(network_list) :
            Interior(network_list[i]) =>
                /\ "inlet_pressure" \in DOMAIN network_list[i].attrs
                /\ network_list[i].attrs.inlet_pressure
                       = GetAttr(network_list[i - 1], "outlet_pressure")

\* A returned chain of two interior elements, the first with a non-zero drop.
C1_Witness ==
    /\ BuildReturned
    /\ Len(network_list) >= 3
    /\ Interior(network_list[2]) /\ Interior(network_list[3])
    /\ network_list[2].attrs.pressure_drop.n # 0

PipeEquations(e) ==
    LET x == e.attrs
        total == FAdd(FAdd(x.dp_loss.n, x.dp_gravity.n), x.dp_accel.n)
    IN  /\ x.pressure_drop = NumV(total)
        /\ x.outlet_pressure = NumV(FSub(x.inlet_pressure.n, total))
        /\ x.inlet_pressure = GetAttr(e.link[1], "outlet_pressure")

\* C2: every successfully constructed Pipe has pressure_drop = dp_loss +
\* dp_gravity + dp_accel, outlet_pressure = inlet_pressure - that sum, and
\* inlet_pressure = upstream.outlet_pressure.
C2_PipeEndpoints ==
    /\ \A i \in DOMAIN network_list :
          network_list[i].kind = "Pipe" => PipeEquations(network_list[i])
    /\ (obj.kind = "Pipe" /\ ~ConstructionFailed) => PipeEquations(obj)

\* A Pipe constructed with all three terms non-zero.
C2_Witness ==
    /\ obj.kind = "Pipe" /\ ~ConstructionFailed
    /\ obj.attrs.dp_loss.n # 0 /\ obj.attrs.dp_gravity.n # 0 /\ obj.attrs.dp_accel.n # 0

JunctionEquations(e) ==
    LET x == e.attrs
        v == FDiv(x.mass_flow_rate.n, FMul(x.density.n, x.ref_area.n))
        k == FMul(FMul(FMul(x.form_loss.n, Half), x.density.n), FMul(v, v))
    IN  /\ x.ref_velocity = NumV(v)
        /\ x.dp_loss = NumV(k)
        /\ x.pressure_drop = x.dp_loss
        /\ x.inlet_pressure = GetAttr(e.link[1], "outlet_pressure")
        /\ x.outlet_pressure = NumV(FSub(x.inlet_pressure.n, x.pressure_drop.n))

\* C3: every successfully constructed Junction has ref_velocity =
\* mass_flow_rate / (density * ref_area), pressure_drop = dp_loss = form_loss
\* * 0.5 * density * ref_velocity^2, inlet_pressure = upstream.outlet_pressure
\* and outlet_pressure = inlet_pressure - pressure_drop.
C3_JunctionEndpoints ==
    /\ \A i \in DOMAIN network_list :
          network_list[i].kind = "Junction" => JunctionEquations(network_list[i])
    /\ (obj.kind = "Junction" /\ ~ConstructionFailed) => JunctionEquations(obj)

\* A Junction constructed with a non-zero loss.
C3_Witness ==
    /\ obj.kind = "Junction" /\ ~ConstructionFailed
    /\ obj.attrs.dp_loss.n # 0

\* C4: a Pipe or Junction whose upstream has no outlet_pressure (None or
\* absent) fails with ValueError and with none of its derived fields set.
C4_UnsetUpstreamFailsFirst ==
    (Interior(obj) /\ GetAttr(obj.link[1], "outlet_pressure").t = "none") =>
        /\ ConstructionFailed
        /\ err.cls = "ValueError"
        /\ DOMAIN obj.attrs \cap (PipeDerived \cup JunctionDerived) = {}

\* A Pipe refused for its upstream although its inlet area is zero and its
\* flow_direction is not a direction.
C4_Witness ==
    /\ obj.kind = "Pipe"
    /\ GetAttr(obj.link[1], "outlet_pressure").t = "none"
    /\ obj.attrs.inlet_area.n = 0
    /\ obj.attrs.flow_direction.t = "str"
    /\ DirKey(obj.attrs.flow_direction.s) \notin ValidDirKeys
    /\ err.cls = "ValueError"

NormalizedDirection(v) == Lower(Strip(v.s))

\* C5: a Pipe whose flow_direction normalizes to up / down / side gets
\* dp_gravity = density * g * length * (+1 / -1 / 0); with any other
\* flow_direction value the construction fails with ValueError.
C5_FlowDirection ==
    obj.kind = "Pipe" =>
        LET fd == obj.attrs.flow_direction
            x == obj.attrs
            term(sign) == NumV(FMul(FMul(FMul(x.density.n, GRAVITY), x.length.n), sign))
        IN  IF fd.t = "str" /\ NormalizedDirection(fd) = <<"u", "p">>
            THEN ~ConstructionFailed => x.dp_gravity = term(One)
            ELSE IF fd.t = "str" /\ NormalizedDirection(fd) = <<"d", "o", "w", "n">>
            THEN ~ConstructionFailed => x.dp_gravity = term(0 - One)
            ELSE IF fd.t = "str" /\ NormalizedDirection(fd) = <<"s", "i", "d", "e">>
            THEN ~ConstructionFailed => x.dp_gravity = term(0)
            ELSE ConstructionFailed /\ err.cls = "ValueError"

\* build_network has ended, by a return or by an exception.
BuildEnded == pc \in {"loop", "geom", "loss", "build"} /\ status # "running"

DescriptorTypes == [i \in DOMAIN inputs.network |-> inputs.network[i].type]

\* C6: a build whose first descriptor is not an inlet, or that has an inlet
\* after the first position, ends with IndexError and returns no Network.
C6_InletMustBeFirst ==
    (/\ BuildEnded
     /\ \/ (Len(inputs.network) >= 1 /\ DescriptorTypes[1] # "inlet")
        \/ \E i \in 2..Len(inputs.network) : DescriptorTypes[i] = "inlet")
    => (status = "raised" /\ err.cls = "IndexError")

\* C7: an outlet descriptor that is not the last one raises IndexError; an
\* Outlet that is built is the last element, references the element built
\* before it, and ends the build at its own descriptor.
C7_OutletLastAndTerminal ==
    /\ (BuildEnded /\ pc = "loop" /\ idx < Len(inputs.network)
          /\ DescriptorTypes[idx + 1] = "outlet" /\ idx # Len(inputs.network) - 1)
       => (status = "raised" /\ err.cls = "IndexError"
             /\ \A i \in DOMAIN network_list : network_list[i].kind # "Outlet")
    /\ \A i \in DOMAIN network_list :
          network_list[i].kind = "Outlet" =>
              /\ i = Len(network_list)
              /\ i >= 2
              /\ network_list[i].link = <<network_list[i - 1]>>
              /\ status = "returned"
              /\ pc = "loop"
              /\ idx = i - 1
              /\ DescriptorTypes[idx + 1] = "outlet"

\* An Outlet built after an Inlet and an interior element.
C7_Witness ==
    /\ BuildReturned
    /\ Len(network_list) = 3
    /\ network_list[3].kind = "Outlet"
    /\ Interior(network_list[3].link[1])

\* C8: a returned Network is one Inlet, then Pipes/Junctions in descriptor
\* order, then one Outlet; a document whose last descriptor is not an outlet
\* returns no Network.
C8_NetworkShape ==
    BuildReturned =>
        LET n == Len(network_list)
        IN  /\ n >= 2
            /\ n = Len(inputs.network)
            /\ DescriptorTypes[n] = "outlet"
            /\ network_list[1].kind = "Inlet"
            /\ network_list[n].kind = "Outlet"
            /\ \A i \in 2..(n - 1) :
                  /\ Interior(network_list[i])
                  /\ network_list[i].attrs.name = StrV(<<inputs.network[i].name>>)

Keys(items) == {items[i][1] : i \in DOMAIN items}

\* The parameter value v is a ${geom.K} token.
IsGeomToken(v) ==
    v.t = "str" /\ Len(v.s) >= 2 /\ v.s[1] = "${geom." /\ v.s[Len(v.s)] = "}"

TokenKey(v) == IF Len(v.s) = 3 THEN v.s[2] ELSE ""

\* The entry calls a loss function: a func/params map under a key other
\* than flow_direction.
IsCallEntry(item) ==
    item[1] # "flow_direction" /\ item[2].t = "map" /\ {"func", "params"} \subseteq item[2].keys

\* The first parameter of the entry that is a token naming no geom key of
\* the descriptor d, as a sequence of length at most one.
RECURSIVE DanglingTokens(_, _)
DanglingTokens(params, d) ==
    IF params = <<>> THEN <<>>
    ELSE IF IsGeomToken(Head(params)[2]) /\ TokenKey(Head(params)[2]) \notin Keys(d.geom)
    THEN <<Head(params)[2]>>
    ELSE DanglingTokens(Tail(params), d)

WellFormedEntry(item) ==
    \/ IsNum(item[2])
    \/ (item[1] = "flow_direction" /\ item[2].t = "str")
    \/ (item[2].t = "map" /\ {"func", "params"} \subseteq item[2].keys)

\* C10: an entry that is not well formed raises TypeError naming the element
\* and the field, under every key: no such entry is ever passed over, and the
\* exception raised at one is that TypeError.
C10_MalformedEntryTypeError ==
    /\ (pc \in {"geom", "loss"}) =>
          \A k \in 1..ent : WellFormedEntry(SampleCase[pc][k])
    /\ (pc \in {"geom", "loss"} /\ status = "raised"
          /\ ~WellFormedEntry(SampleCase[pc][ent + 1]))
       => err = Err("TypeError", <<SampleCase.name, pc, SampleCase[pc][ent + 1][1]>>)

\* The drop an element contributes to the running sum: its pressure_drop, or
\* zero when it has none.
DropOf(e) == IF "pressure_drop" \in DOMAIN e.attrs THEN e.attrs.pressure_drop.n ELSE 0

\* The drops of elements 1..i of the chain, added in chain order.
RECURSIVE DropsThrough(_)
DropsThrough(i) == IF i = 0 THEN 0 ELSE FAdd(DropsThrough(i - 1), DropOf(network_list[i]))

\* C11: the frame of create_summary_df has one row per element in chain
\* order (row i carries the name, the kind and the pressure_drop of element
\* i), and its cumulative_dp in row i is the sum of the drops of rows 1..i,
\* a row without pressure_drop counting as zero.
C11_SummaryRowsAndCumulative ==
    df.made =>
        /\ Len(df.rows) = Len(network_list)
        /\ \A i \in DOMAIN network_list :
              /\ df.rows[i]["name"] = network_list[i].attrs.name
              /\ df.rows[i]["type"] = StrV(<<CompKind(network_list[i])>>)
              /\ df.rows[i]["pressure_drop"] = GetAttr(network_list[i], "pressure_drop")
              /\ df.rows[i]["cumulative_dp"] = NumV(DropsThrough(i))

\* A frame of inlet, two elements with non-zero drops, outlet.
C11_Witness ==
    /\ df.made
    /\ Len(df.rows) = 4
    /\ df.rows[1]["type"] = StrV(<<"inlet">>) /\ df.rows[4]["type"] = StrV(<<"outlet">>)
    /\ df.rows[2]["pressure_drop"].n # 0 /\ df.rows[3]["pressure_drop"].n # 0
    /\ df.rows[4]["cumulative_dp"].n # df.rows[2]["cumulative_dp"].n

KPaColumns ==
    {"dp_gravity", "dp_accel", "dp_loss", "inlet_pressure", "outlet_pressure",
     "pressure_drop", "cumulative_dp"}

\* The float cell c is the base value v (in quanta) divided by 1000: zero for
\* zero, else the number of MantBits significant bits nearest to v / 1000.
IsThousandth(c, v) ==
    /\ c.t = "float"
    /\ IF v = 0 THEN c.n = 0
       ELSE /\ (c.n < 0) = (v < 0)
            /\ Abs(1000 * Abs(c.n) - Abs(v) * 2 ^ c.k) * 2 <= 1000
            /\ c.k > 0
            /\ Abs(c.n) >= 2 ^ (MantBits - 1) /\ Abs(c.n) < 2 ^ MantBits

\* C12: write_summary exports one row per element in chain order; a cell of
\* a kPa column is the value create_summary_df gives divided by 1000 (once),
\* a cell of any other column is that value itself, a missing value stays
\* missing, and the text written for a cell is the rendering of that cell.
C12_ExportScalesKPaOnce ==
    csv.made =>
        LET base == create_summary_df(network_list).rows
        IN  /\ Len(csv.frame) = Len(network_list) /\ Len(csv.text) = Len(network_list)
            /\ \A i \in DOMAIN network_list :
                  /\ csv.text[i]["name"].s = network_list[i].attrs.name.s
                  /\ \A c \in DOMAIN base[i] :
                        /\ csv.text[i][c] = Format3G(csv.frame[i][c])
                        /\ IF base[i][c].t # "num" THEN csv.frame[i][c] = ToCell(base[i][c])
                           ELSE IF c \in KPaColumns
                           THEN IsThousandth(csv.frame[i][c], base[i][c].n)
                           ELSE csv.frame[i][c] = FloatCell(base[i][c].n, 0)

\* An exported chain whose pipe row has a non-zero drop and a non-zero flow.
C12_Witness ==
    /\ csv.made
    /\ Len(csv.frame) >= 3
    /\ csv.frame[2]["type"] = StrCell(<<"pipe">>)
    /\ csv.frame[2]["pressure_drop"].n # 0 /\ csv.frame[2]["pressure_drop"].k > 0
    /\ csv.frame[2]["mass_flow_rate"].n # 0
    /\ csv.frame[Len(csv.frame)]["cumulative_dp"].n # 0

\* The table of the statement: ratio in tenths, coefficient in 1 / 10000.
C13_Table ==
    << <<0, 10000>>, <<2, 8500>>, <<4, 6800>>, <<6, 5030>>, <<8, 3000>>,
       <<9, 1780>>, <<10, 0>> >>

\* a (in 1 / 10000) is the value at ratio n / d (n, d > 0) of the polygon
\* through C13_Table, to the nearest 1 / 10000; beyond the last abscissa it
\* is the last ordinate.
OnContractionPolygon(a, n, d) ==
    IF n >= d THEN a = C13_Table[7][2]
    ELSE \E j \in 1..6 :
            LET p == C13_Table[j]
                q == C13_Table[j + 1]
                w == (q[1] - p[1]) * d
                t == 10 * n - p[1] * d
            IN  /\ 0 <= t /\ t <= w
                /\ 2 * Abs(a * w - (p[2] * (w - t) + q[2] * t)) <= w

ContractionCall == ret.fn = "sudden_contraction"

\* C13: sudden_contraction with positive areas returns the value of the
\* table interpolated linearly at outlet_area / inlet_area, the boundary
\* value 0.00 for every ratio above 1 (no extrapolation), and for ratio 0.5
\* the midpoint of 0.68 and 0.503.
C13_ContractionInterpolates ==
    ContractionCall =>
        LET i == KwArg(ret.kw, "inlet_area").n
            o == KwArg(ret.kw, "outlet_area").n
        IN  (i > 0 /\ o > 0) =>
               /\ ret.err = NoErr
               /\ OnContractionPolygon(ret.fine[1], o, i)
               /\ ret.fine[1] >= 0 /\ ret.fine[1] <= 10000
               /\ (2 * o = i) => 2 * ret.fine[1] = 6800 + 5030
               /\ ret.val = NumV(FlRat(ret.fine[1] * Quantum, 10000))

\* The call at ratio 0.5.
C13_Witness ==
    /\ ContractionCall
    /\ KwArg(ret.kw, "inlet_area") = NumV(Num(2, 1))
    /\ KwArg(ret.kw, "outlet_area") = NumV(Num(1, 1))
    /\ ret.fine = <<5915>>

\* A call with a ratio above 1, answered with the boundary value.
C13_WitnessClamped ==
    /\ ContractionCall
    /\ KwArg(ret.kw, "inlet_area") = NumV(Num(2, 1))
    /\ KwArg(ret.kw, "outlet_area") = NumV(Num(5, 1))
    /\ ret.fine = <<0>>

\* The arguments that are areas or diameters, and those that are friction
\* factors.
SizeArguments == {"inlet_area", "outlet_area", "D_outer", "D_inner", "hydraulic_diameter"}
FrictionArguments == {"lambda_circ"}

ValidatingLossFunctions ==
    {"sudden_expansion", "sudden_contraction", "f_annulus_turbulent",
     "beveled_contraction_alpha60", "beveled_contraction_alpha140",
     "sharp_thick_inlet_facing_baffle", "discharge_from_straight_tube_to_baffle"}

\* The call in ret breaks a physical precondition: an area or diameter that
\* is not positive, an annulus with D_inner >= D_outer, or a friction factor
\* that is not positive.
PreconditionBroken ==
    \/ \E j \in DOMAIN ret.kw :
          ret.kw[j][1] \in SizeArguments \cup FrictionArguments /\ ret.kw[j][2].n <= 0
    \/ /\ {"D_outer", "D_inner"} \subseteq KwNames(ret.kw)
       /\ KwArg(ret.kw, "D_inner").n >= KwArg(ret.kw, "D_outer").n

\* C14: a loss function called with a broken precondition raises ValueError;
\* it neither returns a number nor raises another exception.
C14_LossPreconditionsValidated ==
    (ret.fn \in ValidatingLossFunctions /\ PreconditionBroken) => ret.err.cls = "ValueError"

AreaFunctions == {"area_circle", "area_rectangle", "area_capsule_slot", "area_annulus"}

HydraulicDiameterFunctions ==
    {"hydraulic_diameter_annulus", "hydraulic_diameter_generic", "hydraulic_diameter_circle",
     "hydraulic_diameter_annulus_concentric", "hydraulic_diameter_rect_slot",
     "hydraulic_diameter_capsule_slot"}

\* The call in ret has a negative dimension, or is an annulus whose outer
\* diameter is not greater than the inner one.
InvalidDimensions ==
    \/ \E j \in DOMAIN ret.kw : ret.kw[j][2].n < 0
    \/ /\ {"D_outer", "D_inner"} \subseteq KwNames(ret.kw)
       /\ KwArg(ret.kw, "D_outer").n <= KwArg(ret.kw, "D_inner").n

\* C15: an area or hydraulic-diameter function called with invalid
\* dimensions raises ValueError and yields no number.
C15_GeometryRejectsInvalid ==
    (ret.fn \in AreaFunctions \cup HydraulicDiameterFunctions /\ InvalidDimensions)
        => ret.err.cls = "ValueError"

\* The divisor descriptor d declares, 1 when it declares none.
DeclaredSplits(d) ==
    IF d.ref_area.flow_splits = <<>> THEN One ELSE d.ref_area.flow_splits[1].n

\* C16: in a network under construction or returned, element i was built
\* from descriptor i; every Pipe has the Inlet's mass_flow_rate and density,
\* every Junction has the Inlet's density and the Inlet's mass_flow_rate
\* divided by the flow_splits of its own descriptor, whatever the
\* descriptors before it declare.
C16_MassFlowFromInlet ==
    \A i \in DOMAIN network_list :
        LET e == network_list[i]
            inlet == network_list[1]
            d == inputs.network[i]
        IN  /\ e.kind = "Pipe" =>
                  /\ inlet.kind = "Inlet"
                  /\ e.attrs.mass_flow_rate = inlet.attrs.mass_flow_rate
                  /\ e.attrs.density = inlet.attrs.density
            /\ e.kind = "Junction" =>
                  /\ inlet.kind = "Inlet"
                  /\ e.attrs.density = inlet.attrs.density
                  /\ e.attrs.mass_flow_rate
                        = NumV(FDiv(inlet.attrs.mass_flow_rate.n, DeclaredSplits(d)))

\* A returned chain of a junction that splits the flow in two followed by a
\* pipe that carries the whole flow again.
C16_Witness ==
    /\ BuildReturned
    /\ Len(network_list) = 4
    /\ network_list[2].kind = "Junction" /\ DeclaredSplits(inputs.network[2]) = Num(2, 1)
    /\ network_list[2].attrs.mass_flow_rate.n * 2 = network_list[1].attrs.mass_flow_rate.n
    /\ network_list[3].kind = "Pipe"
    /\ network_list[3].attrs.mass_flow_rate = network_list[1].attrs.mass_flow_rate

\* C17: hydraulic_diameter_annulus called with D_outer > D_inner > 0 returns
\* D_outer - D_inner, the value hydraulic_diameter_annulus_concentric
\* returns for the same diameters.
C17_AnnulusHydraulicDiameter ==
    (/\ ret.fn = "hydraulic_diameter_annulus"
     /\ KwArg(ret.kw, "D_inner").n > 0
     /\ KwArg(ret.kw, "D_outer").n > KwArg(ret.kw, "D_inner").n)
        => /\ ret.err = NoErr
           /\ ret.val = NumV(FSub(KwArg(ret.kw, "D_outer").n, KwArg(ret.kw, "D_inner").n))
           /\ ret.val = hydraulic_diameter_annulus_concentric(ret.kw).val


\* The drops of elements 1..i of the chain as an exact sum.
RECURSIVE ExactDrops(_)
ExactDrops(i) == IF i = 0 THEN 0 ELSE ExactDrops(i - 1) + DropOf(network_list[i])

\* No subtraction and no addition along rows 1..i had to round: every
\* partial sum of the drops, and the Inlet's pressure minus it, is a
\* representable number.
NoRounding(i) ==
    \A j \in 1..i :
        /\ FlRat(ExactDrops(j), 1) = ExactDrops(j)
        /\ FlRat(network_list[1].attrs.outlet_pressure.n - ExactDrops(j), 1)
              = network_list[1].attrs.outlet_pressure.n - ExactDrops(j)

\* The spacing of the representable numbers at the magnitude of x (zero
\* where every multiple of the quantum is representable).
Spacing(x) == IF BitLen(Abs(x)) > MantBits THEN 2 ^ (BitLen(Abs(x)) - MantBits) ELSE 0

\* The pressure an element leaves behind it: its outlet_pressure, or for
\* the Outlet that of the element it references.
PressureAfter(e) ==
    IF e.kind = "Outlet" THEN e.link[1].attrs.outlet_pressure.n
    ELSE e.attrs.outlet_pressure.n

\* The largest spacing among the pressures and running sums of the frame.
WidestSpacing ==
    LET all == {Spacing(PressureAfter(network_list[i])) : i \in DOMAIN network_list}
                 \cup {Spacing(df.rows[i]["cumulative_dp"].n) : i \in DOMAIN network_list}
    IN  CHOOSE m \in all : \A x \in all : x <= m

C18_WitnessRounded ==
    /\ df.made
    /\ Len(network_list) = 4
    /\ ~NoRounding(4)
    /\ df.rows[4]["cumulative_dp"].n
          # network_list[1].attrs.outlet_pressure.n - network_list[3].attrs.outlet_pressure.n

====
